---- MODULE Spec2Model ----
(***************************************************************************)
(* The WhatsApp webhook of javaria-2b/whatsapp-agent as a state machine.   *)
(*                                                                         *)
(* Two handlers are modelled:                                              *)
(*   "ctx"    the form-encoded, context-tracking POST (src/unnamed/part_000)*)
(*   "simple" the JSON POST (src/src/app/api/whatsapp/route.ts)            *)
(*                                                                         *)
(* Node runs each handler to its next `await` without interruption, so one *)
(* action is the code between two awaits.  Requests that are in flight     *)
(* interleave at their awaits only.  A ConversationContext is a JavaScript *)
(* object: the store and the handlers' locals hold references into `heap`. *)
(* createdAt is written once and never read; it is left out of the record. *)
(***************************************************************************)
EXTENDS Integers, Sequences, FiniteSets, TLC

\* ---------------------------------------------------------------- bounds
\* Requests that may be in flight at the same time.
MaxInFlight == 2
\* Requests received over a whole run.
MaxRequests == 2
\* Requests received over a run that handles one request at a time.
MaxSeqRequests == 2
\* Cycles of one sender's conversation.
MaxCycles == 4
\* Requests of one sender received over a run in which they may overlap.
MaxOverlap == 3

Slots == 1..MaxInFlight

\* ------------------------------------------------------- program constants
\* z.string().startsWith('whatsapp:')
ChannelPrefix == "whatsapp:"
\* z.string().min(1)
MinBodyLen == 1
\* context.messages.slice(-6)
SliceCount == 6
SystemPrompt == "You are a helpful WhatsApp assistant. Provide concise and helpful responses."
NoContentReply == "I could not generate a response."
CompletionFailedReply == "Sorry, I am unable to generate a response right now."
ApologyBody == "Sorry, I encountered an error processing your request."
ApologyTo == "whatsapp:+1234567890"
SimpleNoContentReply == "I'm here to help!"
SimpleTo == "whatsapp:+923020012190"

\* --------------------------------------------------------------- inputs
\* Inbound payloads after parsing: a record holding the fields that are
\* present.  A field that is absent reads as undefined.
Payloads ==
  { [Body |-> "Hello", From |-> "whatsapp:+100"],
    [Body |-> "Bye",   From |-> "whatsapp:+100"],
    [Body |-> "Hello", From |-> "whatsapp:+200"],
    [Body |-> "",      From |-> "whatsapp:+100"],
    [From |-> "whatsapp:+100"],
    [Body |-> "Hello", From |-> "+100"],
    [Body |-> "Hello"] }

NoPayload == [f \in {} |-> ""]

Variants == {"ctx", "simple"}

\* What completion.choices[0]?.message?.content may be when the call
\* resolves: a text, the empty text, or nothing at all.
NoContent == [f \in {} |-> ""]
CompletionContents == { [content |-> "Hi there!"], [content |-> ""], NoContent }

\* -------------------------------------------------------------- state
VARIABLES
  contextStore,   \* Map<string, ConversationContext>: key -> reference
  heap,           \* the ConversationContext objects, by reference
  req,            \* the handler invocations in flight
  last,           \* the invocation that returned most recently, with its response
  received,       \* requests received so far
  cycles          \* per key: validated ctx requests that ran to their return

vars == <<contextStore, heap, req, last, received, cycles>>

HasField(p, f) == f \in DOMAIN p

IdleReq ==
  [ pc |-> "idle", variant |-> "ctx", parseOk |-> TRUE, payload |-> NoPayload,
    context |-> 0, aiResponse |-> "", completionCalls |-> <<>>,
    sends |-> <<>>, completion |-> "none", primary |-> "none",
    apology |-> "none", status |-> 0 ]

Init ==
  /\ contextStore = [k \in {} |-> 0]
  /\ heap = <<>>
  /\ req = [s \in Slots |-> IdleReq]
  /\ last = IdleReq
  /\ received = 0
  /\ cycles = [k \in {} |-> 0]

\* ------------------------------------------------------ pure helpers
\* String.prototype.startsWith
StartsWith(s, prefix) ==
  /\ Len(s) >= Len(prefix)
  /\ SubSeq(s, 1, Len(prefix)) = prefix

\* (variant: Body is only required to be a string)
SchemaAcceptsEmptyBody(p) ==
  /\ HasField(p, "Body")
  /\ HasField(p, "From")
  /\ StartsWith(p.From, ChannelPrefix)

\* (variant: From is only required to be a string)
SchemaAcceptsAnyFrom(p) ==
  /\ HasField(p, "Body")
  /\ Len(p.Body) >= MinBodyLen
  /\ HasField(p, "From")

\* WhatsAppMessageSchema.parse succeeds (no ZodError)
SchemaAccepts(p) ==
  /\ HasField(p, "Body")
  /\ Len(p.Body) >= MinBodyLen
  /\ HasField(p, "From")
  /\ StartsWith(p.From, ChannelPrefix)

\* JavaScript truthiness of a string-or-undefined field
Truthy(p, f) == HasField(p, f) /\ p[f] # ""

\* (variant: slice(0, n), the first n entries)
SliceFirst(msgs, n) ==
  IF Len(msgs) <= n THEN msgs ELSE SubSeq(msgs, 1, n)

\* (variant: slice(-(n - 1)), one entry short)
SliceLastShort(msgs, n) ==
  IF Len(msgs) <= n - 1 THEN msgs ELSE SubSeq(msgs, Len(msgs) - n + 2, Len(msgs))

\* Array.prototype.slice(-n)
SliceLast(msgs, n) ==
  IF Len(msgs) <= n THEN msgs ELSE SubSeq(msgs, Len(msgs) - n + 1, Len(msgs))

Msg(role, content) == [role |-> role, content |-> content]

\* part_000 lines 64-67 and 73-76: the entries pushed in a request cycle
UserMessage(Body) == Msg("user", Body)

\* (variant: the reply is pushed under the user role)
AssistantMessageAsUser(aiResponse) == Msg("user", aiResponse)

AssistantMessage(aiResponse) == Msg("assistant", aiResponse)

\* (variant: the new context does not carry the conversation key)
NewContextKeyless(conversationId) ==
  [ id |-> "", messages |-> << Msg("system", SystemPrompt) >> ]

\* (variant: the new context is not seeded with the system message)
NewContextUnseeded(conversationId) ==
  [ id |-> conversationId, messages |-> << >> ]

\* the object literal of lines 52-61
NewContext(conversationId) ==
  [ id |-> conversationId,
    messages |-> << Msg("system", SystemPrompt) >> ]

\* contextStore.get(key): a reference, or 0 for undefined
StoreGet(key) == IF key \in DOMAIN contextStore THEN contextStore[key] ELSE 0

\* contextStore.set(key, ref)
StoreSet(store, key, ref) ==
  [k \in (DOMAIN store) \cup {key} |-> IF k = key THEN ref ELSE store[k]]

\* (variant: content ?? fallback, which lets the empty text through)
ContentOrNullish(message, fallback) ==
  IF HasField(message, "content") THEN message.content ELSE fallback

\* completion.choices[0]?.message?.content || fallback
ContentOr(message, fallback) ==
  IF Truthy(message, "content") THEN message.content ELSE fallback

\* ------------------------------------------------- provider outcomes
\* How openai.chat.completions.create settles: it rejects, or it resolves
\* with choices[0]?.message being a record that may hold a content.
Rejected == [rejected |-> TRUE]
CompletionOutcomes == {Rejected} \cup CompletionContents

\* (variant: the catch block returns the no-content text)
GenerateAIResponseOneFallback(outcome) ==
  IF outcome = Rejected THEN NoContentReply
  ELSE ContentOr(outcome, NoContentReply)

\* generateAIResponse, lines 133-139: the value it returns
GenerateAIResponse(outcome) ==
  IF outcome = Rejected THEN CompletionFailedReply
  ELSE ContentOr(outcome, NoContentReply)

\* the arguments of the messages.create calls (from is the configured sender)
PrimarySend(conversationId, aiResponse) == [to |-> conversationId, body |-> aiResponse]
ApologySend == [to |-> ApologyTo, body |-> ApologyBody]
SimpleSend(replyText) == [to |-> SimpleTo, body |-> replyText]

\* ------------------------------------------------------ the catch blocks
\* What the try blocks throw: a ZodError from the schema, a TypeError from
\* the body parser, an Error from a provider SDK.
IsZodError(error) == error = "ZodError"

IsError(error) == error \in {"TypeError", "Error"}

\* how an awaited provider call settled
Settled(ok) == IF ok THEN "resolved" ELSE "rejected"

\* how the completion call settled: rejected, resolved with a text, or
\* resolved with no text ("empty": no content at all, or the empty string)
CompletionSettled(outcome) ==
  IF outcome = Rejected THEN "rejected"
  ELSE IF HasField(outcome, "content") /\ outcome.content # "" THEN "resolved"
  ELSE "empty"

\* the handler returns a response
Respond(r, status) == [r EXCEPT !.pc = "done", !.status = status]

\* (variant: the catch block answers 500 without the apology send)
CatchWithoutApology(r, error) ==
  IF IsZodError(error) THEN Respond(r, 400) ELSE Respond(r, 500)

\* part_000 lines 90-115, up to the await of the apology send
Catch(r, error) ==
  IF IsZodError(error) THEN Respond(r, 400)
  ELSE IF IsError(error)
       THEN [r EXCEPT !.pc = "apology", !.sends = Append(@, ApologySend)]
       ELSE Respond(r, 500)

\* (variant: no inner try/catch, a rejected apology send leaves the handler
\* as an unhandled rejection)
AfterApologyUncaught(r, ok) ==
  IF ok THEN Respond([r EXCEPT !.apology = "resolved"], 500)
  ELSE [r EXCEPT !.apology = "rejected", !.pc = "threw"]

\* part_000 lines 104-115: the apology send settled; a rejection is caught
\* by the inner catch, and the handler returns
AfterApology(r, ok) ==
  Respond([r EXCEPT !.apology = Settled(ok)], 500)

\* route.ts lines 52-57
SimpleCatch(r, error) == Respond(r, 500)

\* cycles after a handler took a step: a validated ctx request that has
\* returned counts as one cycle of its key
CyclesAfter(after) ==
  IF after.pc = "done" /\ after.context # 0
  THEN LET key == after.payload.From IN
       [k \in (DOMAIN cycles) \cup {key} |->
          IF k = key THEN (IF k \in DOMAIN cycles THEN cycles[k] + 1 ELSE 1)
          ELSE cycles[k]]
  ELSE cycles

\* ------------------------------------------------------------ actions
FreeSlot(s) ==
  /\ req[s].pc = "idle"
  /\ \A t \in Slots : t < s => req[t].pc # "idle"

\* The handler in slot s moves on to `after`: it waits at its next await, or
\* it has returned and its invocation is over.
Step(s, after) ==
  /\ req' = [req EXCEPT ![s] = IF after.pc = "done" THEN IdleReq ELSE after]
  /\ last' = IF after.pc = "done" THEN after ELSE last
  /\ cycles' = CyclesAfter(after)

\* The runtime invokes POST; the handler runs to its first await
\* (req.formData() in part_000, request.json() in route.ts).
Receive(s, variant) ==
  /\ FreeSlot(s)
  /\ req' = [req EXCEPT ![s] =
       [IdleReq EXCEPT !.pc = IF variant = "ctx" THEN "formData" ELSE "json",
                       !.variant = variant]]
  /\ received' = received + 1
  /\ UNCHANGED <<contextStore, heap, last, cycles>>

\* part_000 line 39: req.formData() rejects
CtxFormDataRejects(s) ==
  /\ req[s].pc = "formData"
  /\ Step(s, Catch([req[s] EXCEPT !.parseOk = FALSE], "TypeError"))
  /\ UNCHANGED <<contextStore, heap, received>>

\* part_000 lines 52-61: contextStore.get(conversationId) || { ... }.  The
\* reference obtained, and the heap holding the object it refers to.  The
\* store is not written here.
FetchOrCreate(conversationId) ==
  LET found == StoreGet(conversationId) IN
  IF found # 0
  THEN [ref |-> found, heap |-> heap]
  ELSE [ref |-> Len(heap) + 1, heap |-> Append(heap, NewContext(conversationId))]

\* (variant: the context is fetched or created, and stored, from the raw
\* From field before the schema is applied)
CtxInvalidAfterCreate(s, payload) ==
  /\ req[s].pc = "formData"
  /\ ~SchemaAccepts(payload)
  /\ Step(s, Catch([req[s] EXCEPT !.payload = payload], "ZodError"))
  /\ IF HasField(payload, "From")
     THEN /\ heap' = FetchOrCreate(payload.From).heap
          /\ contextStore' =
               StoreSet(contextStore, payload.From, FetchOrCreate(payload.From).ref)
     ELSE UNCHANGED <<contextStore, heap>>
  /\ UNCHANGED received

\* part_000 lines 39-48: the form data holds `payload`, and
\* WhatsAppMessageSchema.parse throws
CtxInvalid(s, payload) ==
  /\ req[s].pc = "formData"
  /\ ~SchemaAccepts(payload)
  /\ Step(s, Catch([req[s] EXCEPT !.payload = payload], "ZodError"))
  /\ UNCHANGED <<contextStore, heap, received>>

\* part_000 lines 39-70 and 122-130: the form data holds `payload`; validate,
\* fetch or create the context, push the user message, slice and call the
\* completion provider.
CtxValidated(s, payload) ==
  /\ req[s].pc = "formData"
  /\ SchemaAccepts(payload)
  /\ LET conversationId == payload.From
         ref == FetchOrCreate(conversationId).ref
         base == FetchOrCreate(conversationId).heap
         pushed == [base EXCEPT ![ref].messages =
                      Append(@, UserMessage(payload.Body))]
     IN /\ heap' = pushed
        /\ Step(s, [req[s] EXCEPT !.pc = "completion",
                                  !.payload = payload,
                                  !.context = ref,
                                  !.completionCalls =
                                     Append(@, SliceLast(pushed[ref].messages, SliceCount))])
  /\ UNCHANGED <<contextStore, received>>

\* part_000 lines 133-139 and 70-86: the provider call settles,
\* generateAIResponse returns, POST pushes the assistant message, stores the
\* context and calls the primary send.
CtxCompletionSettles(s, outcome) ==
  /\ req[s].pc = "completion"
  /\ req[s].variant = "ctx"
  /\ LET conversationId == req[s].payload.From
         ref == req[s].context
         aiResponse == GenerateAIResponse(outcome)
     IN /\ heap' = [heap EXCEPT ![ref].messages = Append(@, AssistantMessage(aiResponse))]
        /\ contextStore' = StoreSet(contextStore, conversationId, ref)
        /\ Step(s, [req[s] EXCEPT !.pc = "send",
                                  !.completion = CompletionSettled(outcome),
                                  !.aiResponse = aiResponse,
                                  !.sends = Append(@, PrimarySend(conversationId, aiResponse))])
  /\ UNCHANGED <<received>>

\* part_000 lines 82-89: the primary send resolves
CtxSendResolves(s) ==
  /\ req[s].pc = "send"
  /\ req[s].variant = "ctx"
  /\ Step(s, Respond([req[s] EXCEPT !.primary = "resolved"], 200))
  /\ UNCHANGED <<contextStore, heap, received>>

\* part_000 lines 82-86 and 90-109: the primary send rejects
CtxSendRejects(s) ==
  /\ req[s].pc = "send"
  /\ req[s].variant = "ctx"
  /\ Step(s, Catch([req[s] EXCEPT !.primary = "rejected"], "Error"))
  /\ UNCHANGED <<contextStore, heap, received>>

\* part_000 lines 104-115: the apology send settles
CtxApologySettles(s, ok) ==
  /\ req[s].pc = "apology"
  /\ Step(s, AfterApology(req[s], ok))
  /\ UNCHANGED <<contextStore, heap, received>>

\* route.ts lines 18-21: request.json() rejects, or the destructuring throws
SimpleJsonRejects(s) ==
  /\ req[s].pc = "json"
  /\ Step(s, SimpleCatch([req[s] EXCEPT !.parseOk = FALSE], "TypeError"))
  /\ UNCHANGED <<contextStore, heap, received>>

\* route.ts lines 18-28: the JSON holds `payload`, and a field is falsy
SimpleInvalid(s, payload) ==
  /\ req[s].pc = "json"
  /\ ~Truthy(payload, "Body") \/ ~Truthy(payload, "From")
  /\ Step(s, Respond([req[s] EXCEPT !.payload = payload], 400))
  /\ UNCHANGED <<contextStore, heap, received>>

\* route.ts lines 18-35: the payload passes and the completion call is made
SimpleValidated(s, payload) ==
  /\ req[s].pc = "json"
  /\ Truthy(payload, "Body") /\ Truthy(payload, "From")
  /\ Step(s, [req[s] EXCEPT !.pc = "completion",
                            !.payload = payload,
                            !.completionCalls =
                               Append(@, << Msg("user", payload.Body) >>)])
  /\ UNCHANGED <<contextStore, heap, received>>

\* route.ts lines 31-35 and 52-57: the completion call rejects
SimpleCompletionRejects(s) ==
  /\ req[s].pc = "completion"
  /\ req[s].variant = "simple"
  /\ Step(s, SimpleCatch([req[s] EXCEPT !.completion = "rejected"], "Error"))
  /\ UNCHANGED <<contextStore, heap, received>>

\* route.ts lines 37-44: the completion call resolves, the reply is sent
SimpleCompletionResolves(s, message) ==
  /\ req[s].pc = "completion"
  /\ req[s].variant = "simple"
  /\ LET replyText == ContentOr(message, SimpleNoContentReply)
     IN Step(s, [req[s] EXCEPT !.pc = "send",
                               !.completion = CompletionSettled(message),
                               !.aiResponse = replyText,
                               !.sends = Append(@, SimpleSend(replyText))])
  /\ UNCHANGED <<contextStore, heap, received>>

\* route.ts lines 40-51: the send resolves; NextResponse.json defaults to 200
SimpleSendResolves(s) ==
  /\ req[s].pc = "send"
  /\ req[s].variant = "simple"
  /\ Step(s, Respond([req[s] EXCEPT !.primary = "resolved"], 200))
  /\ UNCHANGED <<contextStore, heap, received>>

\* route.ts lines 40-44 and 52-57: the send rejects
SimpleSendRejects(s) ==
  /\ req[s].pc = "send"
  /\ req[s].variant = "simple"
  /\ Step(s, SimpleCatch([req[s] EXCEPT !.primary = "rejected"], "Error"))
  /\ UNCHANGED <<contextStore, heap, received>>

\* ------------------------------------------------------ specifications
\* The context-tracking handler under concurrent requests.
Next ==
  \/ \E s \in Slots : received < MaxRequests /\ Receive(s, "ctx")
  \/ \E s \in Slots : CtxFormDataRejects(s)
  \/ \E s \in Slots, p \in Payloads : CtxInvalid(s, p)
  \/ \E s \in Slots, p \in Payloads : CtxValidated(s, p)
  \/ \E s \in Slots, o \in CompletionOutcomes : CtxCompletionSettles(s, o)
  \/ \E s \in Slots : CtxSendResolves(s)
  \/ \E s \in Slots : CtxSendRejects(s)
  \/ \E s \in Slots, ok \in BOOLEAN : CtxApologySettles(s, ok)

Spec == Init /\ [][Next]_vars

\* Both handlers, one request at a time.  Every awaited call settles.
SeqArrive == \E v \in Variants : received < MaxSeqRequests /\ Receive(1, v)

SeqSettle ==
  \/ CtxFormDataRejects(1)
  \/ \E p \in Payloads : CtxInvalid(1, p)
  \/ \E p \in Payloads : CtxValidated(1, p)
  \/ \E o \in CompletionOutcomes : CtxCompletionSettles(1, o)
  \/ CtxSendResolves(1)
  \/ CtxSendRejects(1)
  \/ \E ok \in BOOLEAN : CtxApologySettles(1, ok)
  \/ SimpleJsonRejects(1)
  \/ \E p \in Payloads : SimpleInvalid(1, p)
  \/ \E p \in Payloads : SimpleValidated(1, p)
  \/ SimpleCompletionRejects(1)
  \/ \E m \in CompletionContents : SimpleCompletionResolves(1, m)
  \/ SimpleSendResolves(1)
  \/ SimpleSendRejects(1)

SeqNext == SeqArrive \/ SeqSettle

SeqSpec == Init /\ [][SeqNext]_vars /\ WF_vars(SeqSettle)

\* One sender's conversation, cycle after cycle, in the context-tracking
\* handler.
DeepPayloads == {p \in Payloads : SchemaAccepts(p) /\ p.From = "whatsapp:+100"}

DeepNext ==
  \/ received < MaxCycles /\ Receive(1, "ctx")
  \/ \E p \in DeepPayloads : CtxValidated(1, p)
  \/ \E o \in CompletionOutcomes : CtxCompletionSettles(1, o)
  \/ CtxSendResolves(1)
  \/ CtxSendRejects(1)
  \/ \E ok \in BOOLEAN : CtxApologySettles(1, ok)

DeepSpec == Init /\ [][DeepNext]_vars

\* One sender's requests in the context-tracking handler, overlapping.
OverlapNext ==
  \/ \E s \in Slots : received < MaxOverlap /\ Receive(s, "ctx")
  \/ \E s \in Slots, p \in DeepPayloads : CtxValidated(s, p)
  \/ \E s \in Slots, o \in CompletionOutcomes : CtxCompletionSettles(s, o)
  \/ \E s \in Slots : CtxSendResolves(s)
  \/ \E s \in Slots : CtxSendRejects(s)
  \/ \E s \in Slots, ok \in BOOLEAN : CtxApologySettles(s, ok)

OverlapSpec == Init /\ [][OverlapNext]_vars

\* ------------------------------------------------------------ properties
\* The invocations whose state can be observed: those in flight and the one
\* that returned last.
Reqs == {req[s] : s \in Slots} \cup {last}

\* The inbound payload was read, so r.payload holds its fields.
Parsed(r) == r.parseOk /\ r.pc \notin {"idle", "formData", "json"}

\* The messages of the context stored under key.
Stored(key) == heap[contextStore[key]].messages

\* A validated request for key is in flight.
InFlightFor(key) ==
  \E s \in Slots : req[s].context # 0 /\ req[s].payload.From = key

ApologiesOf(r) == SelectSeq(r.sends, LAMBDA m : m.body = ApologyBody)

\* C1: every messaging-provider call of a request (the reply, and the
\* apology of the context-tracking handler) is addressed to the request's
\* From, and on the 200 path the delivered body is the reply text.
C1_SendsAddressSender ==
  \A r \in Reqs :
    Parsed(r) =>
      /\ \A i \in DOMAIN r.sends : r.sends[i].to = r.payload.From
      /\ r.status = 200 => Len(r.sends) >= 1 /\ r.sends[1].body = r.aiResponse

\* C2: when the only request ever validated for a key has returned 200, the
\* context stored under the key is exactly system, user (= Body),
\* assistant (= the delivered reply).
OnlyRequestFor(key) ==
  /\ key \in DOMAIN cycles
  /\ cycles[key] = 1
  /\ ~InFlightFor(key)

C2_FirstCycleStoresThree ==
  (last.status = 200 /\ OnlyRequestFor(last.payload.From)) =>
    LET key == last.payload.From IN
    /\ key \in DOMAIN contextStore
    /\ heap[contextStore[key]].id = key
    /\ Stored(key) = << Msg("system", SystemPrompt),
                        Msg("user", last.payload.Body),
                        Msg("assistant", last.sends[1].body) >>

C2_Witness == last.status = 200 /\ OnlyRequestFor(last.payload.From)

\* C3: once the k validated requests of a sender have all returned, the
\* stored context holds 1 + 2k messages and the Body of the request that
\* returned last (every request is that one when it returns).
C3_TwoEntriesPerCycle ==
  \A key \in DOMAIN cycles :
    ~InFlightFor(key) =>
      /\ key \in DOMAIN contextStore
      /\ Len(Stored(key)) = 1 + 2 * cycles[key]
      /\ (last.context # 0 /\ last.payload.From = key) =>
            \E i \in DOMAIN Stored(key) : Stored(key)[i] = Msg("user", last.payload.Body)

\* C4: when the primary send of the context-tracking handler is rejected,
\* exactly one apology send is attempted and the response is 500, also when
\* the apology send is rejected; the handler never ends in a thrown error.
C4_PrimarySendFailure ==
  \A r \in Reqs :
    /\ r.pc # "threw"
    /\ r.primary = "rejected" =>
         /\ r.pc \in {"apology", "done"}
         /\ Len(r.sends) = 2
         /\ Len(ApologiesOf(r)) = 1
         /\ r.pc = "done" => r.status = 500
         /\ r.apology # "none" => r.pc = "done" /\ r.status = 500

C4_Witness ==
  last.primary = "rejected" /\ last.apology = "rejected" /\ last.status = 500

\* C5: when the completion call of the context-tracking handler is rejected,
\* the primary send is still made, to the sender, with the fixed fallback
\* text, the same text is the assistant entry pushed to the context, and the
\* response is 200 once that send resolves (never a 400).
C5_CompletionFailure ==
  \A r \in Reqs :
    (r.variant = "ctx" /\ r.completion = "rejected") =>
      /\ r.aiResponse = CompletionFailedReply
      /\ Len(r.sends) >= 1
      /\ r.sends[1] = [to |-> r.payload.From, body |-> CompletionFailedReply]
      /\ \E i \in DOMAIN heap[r.context].messages :
            heap[r.context].messages[i] = Msg("assistant", CompletionFailedReply)
      /\ r.status # 400
      /\ r.primary = "resolved" => r.pc = "done" /\ r.status = 200

C5_Witness ==
  /\ last.completion = "rejected"
  /\ last.primary = "resolved"
  /\ last.status = 200

\* C6: in both handlers a parsed payload whose Body is empty or missing is
\* answered 400, with no completion call and no send.
C6_EmptyBodyRejected ==
  \A r \in Reqs :
    (Parsed(r) /\ ~Truthy(r.payload, "Body")) =>
      /\ r.pc = "done"
      /\ r.status = 400
      /\ r.completionCalls = << >>
      /\ r.sends = << >>

C6_Witness ==
  /\ last.variant = "simple"
  /\ last.pc = "done"
  /\ last.parseOk
  /\ HasField(last.payload, "Body")
  /\ last.payload.Body = ""
  /\ last.status = 400

\* C7: the completion request of a cycle holds at most 6 messages, is a
\* suffix of the context's messages at the call, and ends with the user
\* message carrying the cycle's Body.
IsSuffix(c, msgs) ==
  /\ Len(c) <= Len(msgs)
  /\ \A i \in 1..Len(c) : c[i] = msgs[Len(msgs) - Len(c) + i]

C7_CompletionWindow ==
  \A r \in Reqs :
    (r.variant = "ctx" /\ r.completionCalls # << >>) =>
      LET c == r.completionCalls[1] IN
      /\ Len(r.completionCalls) = 1
      /\ Len(c) >= 1
      /\ Len(c) <= 6
      /\ c[Len(c)] = Msg("user", r.payload.Body)
      /\ r.pc = "completion" => IsSuffix(c, heap[r.context].messages)

C7_Witness ==
  /\ req[1].pc = "completion"
  /\ "whatsapp:+100" \in DOMAIN cycles
  /\ cycles["whatsapp:+100"] >= 3
  /\ Len(heap[req[1].context].messages) > 6
  /\ Len(req[1].completionCalls[1]) = 6

\* C8: the context-tracking handler answers 400 to every parsed payload
\* whose From is missing or does not start with 'whatsapp:'.
C8_UnprefixedFromRejected ==
  \A r \in Reqs :
    (/\ r.variant = "ctx"
     /\ Parsed(r)
     /\ ~(HasField(r.payload, "From") /\ StartsWith(r.payload.From, "whatsapp:"))) =>
      r.pc = "done" /\ r.status = 400

C8_Witness ==
  /\ last.pc = "done"
  /\ last.parseOk
  /\ HasField(last.payload, "From")
  /\ last.payload.From = "+100"
  /\ last.status = 400

\* C9: provided every awaited call settles (weak fairness of SeqSettle),
\* every invocation of either handler, whatever its payload and however its
\* provider calls settle, ends by returning a response, and the status of
\* every response is 200, 400 or 500.  No invocation ends in a thrown error.
C9_AlwaysResponds ==
  /\ \A s \in Slots :
       (req[s].pc # "idle") ~>
          (req[s].pc = "idle" /\ last.pc = "done" /\ last.status \in {200, 400, 500})
  /\ [](last.pc = "done" => last.status \in {200, 400, 500})

C9_Witness ==
  /\ ~last.parseOk
  /\ last.variant = "ctx"
  /\ last.apology = "rejected"
  /\ last.status = 500

\* C10: every stored context starts with a system entry and holds exactly
\* one system entry.
C10_OneLeadingSystemEntry ==
  \A key \in DOMAIN contextStore :
    /\ Len(Stored(key)) >= 1
    /\ Stored(key)[1] = Msg("system", SystemPrompt)
    /\ Cardinality({i \in DOMAIN Stored(key) : Stored(key)[i].role = "system"}) = 1

C10_Witness ==
  \E key \in DOMAIN contextStore :
    /\ Len(Stored(key)) >= 5
    /\ InFlightFor(key)

\* The From values the schema lets through: the conversation keys.
Keys == {p.From : p \in {q \in Payloads : SchemaAccepts(q)}}

\* The validated invocations that can be observed.
Validated == {r \in Reqs : r.variant = "ctx" /\ r.context # 0}

\* C11: the fetch-or-create step records the context it constructs in the
\* store under the key, so the store has an entry for the key of every
\* validated request, and all validated requests of one key hold the same
\* context.
C11_CreateRecordsInStore ==
  /\ \A s \in Slots :
       (req[s].variant = "ctx" /\ req[s].context # 0) =>
          req[s].payload.From \in DOMAIN contextStore
  /\ \A r1 \in Validated, r2 \in Validated :
       r1.payload.From = r2.payload.From => r1.context = r2.context

\* C12: for a key with no stored context the fetch-or-create step yields a
\* context whose id is the key and whose only message is the system entry;
\* a handler that holds such a context has added its user entry and nothing
\* else.
C12_FreshContextSeeded ==
  /\ \A key \in Keys :
       StoreGet(key) = 0 =>
         LET got == FetchOrCreate(key) IN
         /\ got.heap[got.ref].id = key
         /\ Len(got.heap[got.ref].messages) = 1
         /\ got.heap[got.ref].messages[1].role = "system"
  /\ \A s \in Slots :
       (req[s].pc = "completion" /\ StoreGet(req[s].payload.From) = 0) =>
         /\ heap[req[s].context].id = req[s].payload.From
         /\ heap[req[s].context].messages =
              << Msg("system", SystemPrompt), Msg("user", req[s].payload.Body) >>

C12_Witness ==
  \E s \in Slots :
    /\ req[s].pc = "completion"
    /\ StoreGet(req[s].payload.From) = 0
    /\ DOMAIN contextStore # {}

\* The payload of r was read and does not pass the handler's validation.
FailsValidation(r) ==
  /\ Parsed(r)
  /\ IF r.variant = "ctx"
     THEN ~( /\ HasField(r.payload, "Body") /\ r.payload.Body # ""
             /\ HasField(r.payload, "From") /\ StartsWith(r.payload.From, "whatsapp:") )
     ELSE ~( Truthy(r.payload, "Body") /\ Truthy(r.payload, "From") )

\* The request body of r could not be parsed at all.
Unparsable(r) == ~r.parseOk

\* C13: a request whose body cannot be parsed, or whose payload fails
\* validation, is answered 400 at once, with no completion call and no send.
C13_ParseErrorsAnswered400 ==
  \A r \in Reqs :
    (Unparsable(r) \/ FailsValidation(r)) =>
      /\ r.pc = "done"
      /\ r.status = 400
      /\ r.completionCalls = << >>
      /\ r.sends = << >>

\* C14: in the JSON handler a rejected completion call is recovered: a
\* fallback reply is sent through the messaging provider and the response is
\* 200 once that send resolves.
C14_SimpleCompletionRecovered ==
  \A r \in Reqs :
    (r.variant = "simple" /\ r.completion = "rejected") =>
      /\ Len(r.sends) = 1
      /\ r.aiResponse # ""
      /\ r.sends[1].body = r.aiResponse
      /\ r.pc = "done" => (r.primary = "resolved" /\ r.status = 200)
                          \/ (r.primary = "rejected" /\ r.status = 500)

\* C15: when the completion call resolves with no content, the reply is the
\* handler's generic text; that text is what is sent, it is the assistant
\* entry the context-tracking handler pushes (the last entry of the context
\* while the send is awaited), and the response is 200 once the send
\* resolves.
GenericReply(r) ==
  IF r.variant = "ctx" THEN "I could not generate a response."
  ELSE "I'm here to help!"

C15_NoContentReply ==
  \A r \in Reqs :
    r.completion = "empty" =>
      /\ r.aiResponse = GenericReply(r)
      /\ Len(r.sends) >= 1
      /\ r.sends[1].body = GenericReply(r)
      /\ r.variant = "ctx" =>
           LET msgs == heap[r.context].messages IN
           /\ \E i \in DOMAIN msgs : msgs[i] = Msg("assistant", GenericReply(r))
           /\ r.pc = "send" => msgs[Len(msgs)] = Msg("assistant", GenericReply(r))
      /\ r.status # 400
      /\ r.primary = "resolved" => r.pc = "done" /\ r.status = 200

C15_Witness ==
  /\ last.variant = "simple"
  /\ last.completion = "empty"
  /\ last.primary = "resolved"
  /\ last.status = 200

\* msgs holds the user entry and then the assistant entry of request r.
HoldsEntriesOf(msgs, r) ==
  \E i \in DOMAIN msgs, j \in DOMAIN msgs :
    /\ i < j
    /\ msgs[i] = Msg("user", r.payload.Body)
    /\ msgs[j] = Msg("assistant", r.aiResponse)

\* C16: in the context-tracking handler the primary send is made after the
\* completion call has settled and the context was stored; when that send is
\* rejected (and the answer is 500) the context stored under the sender's
\* key holds the request's user and assistant entries, and keeps them.
C16_NoRollback ==
  \A r \in Validated :
    /\ r.sends # << >> =>
         /\ r.completionCalls # << >>
         /\ r.completion # "none"
         /\ r.payload.From \in DOMAIN contextStore
    /\ r.primary = "rejected" =>
         /\ r.payload.From \in DOMAIN contextStore
         /\ HoldsEntriesOf(Stored(r.payload.From), r)
         /\ r.pc = "done" => r.status = 500

\* The role of the i-th message of a context whose entries alternate.
AlternatingRole(i) ==
  IF i = 1 THEN "system" ELSE IF i % 2 = 0 THEN "user" ELSE "assistant"

\* C17: in every stored context the entries after the system entry
\* alternate user, assistant, user, assistant, ..., and the assistant entry
\* of a request comes right after its user entry.
C17_StrictAlternation ==
  \A key \in DOMAIN contextStore :
    /\ \A i \in DOMAIN Stored(key) : Stored(key)[i].role = AlternatingRole(i)
    /\ \A r \in Validated :
         (r.payload.From = key /\ r.completion # "none"
            /\ r.context = contextStore[key]) =>
           \E i \in DOMAIN Stored(key) :
             /\ i > 1
             /\ Stored(key)[i - 1] = Msg("user", r.payload.Body)
             /\ Stored(key)[i] = Msg("assistant", r.aiResponse)

\* C18: the step in which a request of the context-tracking handler is
\* answered 400 leaves the store and every context as they were.
C18_RejectedLeavesStore ==
  [][ \A s \in Slots :
        (req[s].pc = "formData" /\ req'[s].pc = "idle" /\ last'.status = 400) =>
          (contextStore' = contextStore /\ heap' = heap) ]_vars

C18_Witness ==
  /\ last.status = 400
  /\ HasField(last.payload, "From")
  /\ "whatsapp:+100" \in DOMAIN contextStore
  /\ last.payload.From = "+100"

\* C19: the completion request holds the system entry exactly when the
\* context holds at most 6 messages at the call; in one sender's sequence of
\* cycles that is on cycles 1 to 3 and not from cycle 4 on.
HasSystemEntry(c) == \E i \in DOMAIN c : c[i].role = "system"

CycleNumber(key) == IF key \in DOMAIN cycles THEN cycles[key] + 1 ELSE 1

C19_SystemEntryInWindow ==
  \A s \in Slots :
    (req[s].variant = "ctx" /\ req[s].pc = "completion") =>
      LET c == req[s].completionCalls[1]
          msgs == heap[req[s].context].messages
      IN /\ HasSystemEntry(c) <=> Len(msgs) <= 6
         /\ HasSystemEntry(c) <=> CycleNumber(req[s].payload.From) <= 3
         /\ Len(msgs) = 2 * CycleNumber(req[s].payload.From)

C19_Witness ==
  /\ req[1].pc = "completion"
  /\ CycleNumber("whatsapp:+100") = 4
  /\ ~HasSystemEntry(req[1].completionCalls[1])

====
